---- MODULE Spec2Model ----
(***************************************************************************)
(* MatrixRain backend (app.py): the in-memory RSS cache, the feed-list     *)
(* loader, the feed parser, the aggregation loop of GET /api/rss, and the  *)
(* /api/cache/status and /api/cache/clear endpoints.                       *)
(*                                                                         *)
(* Python values are encoded as follows.  None is the empty tuple and a    *)
(* value x that may be None is the one-element tuple <<x>>.  A str is a    *)
(* tuple of one-character strings.  A datetime is a number of clock ticks, *)
(* TicksPerSecond of them to the second, so that sub-second ages exist and *)
(* int(total_seconds()) is a real truncation.                              *)
(***************************************************************************)
EXTENDS Integers, Sequences, FiniteSets, TLC

VARIABLES
    rss_cache,    \* app.py:19 the process-wide cache dict {data, timestamp, count}
    now,          \* the wall clock read by datetime.now()
    pc,           \* per request context: the handler position
    rss_feeds,    \* per request context: local rss_feeds of get_rss_content
    all_content,  \* per request context: local all_content of get_rss_content
    config,       \* per request context: what open('rss_feeds.json') met at load time
    fetch_log,    \* per request context: the fetches issued by the loop, in order
    status_age,   \* per request context: local age_seconds of get_cache_status
    cache_before, \* per request context: the cache as the request found it
    since_clear,  \* no GET /api/rss has begun since the last GET /api/cache/clear
    last_miss,    \* the last non-empty miss response and the lookup that followed it
    response,     \* the HTTP response sent by the step just taken, if any
    xml_text,     \* argument of a direct call of parse_rss_content
    content,      \* result of that call (None before the call)
    script        \* a run of test_feeds.py: its position, locals and exit code

vars == <<rss_cache, now, pc, rss_feeds, all_content, config, fetch_log,
          status_age, cache_before, since_clear, last_miss, response, xml_text,
          content, script>>

locals == <<rss_feeds, all_content, config, fetch_log, status_age, cache_before>>
direct == <<xml_text, content>>

----------------------------------------------------------------------------
(* Bounds of the model *)

NumContexts == 1
MaxFeeds == 2
MaxItems == 2
TicksPerSecond == 2

(* Program constants *)

CACHE_TTL == 300

----------------------------------------------------------------------------
(* Python None / optional values *)

None == <<>>
Some(x) == <<x>>
Val(o) == o[1]

Max(a, b) == IF a >= b THEN a ELSE b

----------------------------------------------------------------------------
(* str.strip and str.upper over strings of characters *)

IsSpace(c) == c = " "

UpperChar(c) ==
    CASE c = "a" -> "A"
      [] c = "b" -> "B"
      [] OTHER -> c

RECURSIVE lstrip(_)
lstrip(s) ==
    IF s = <<>> THEN <<>>
    ELSE IF IsSpace(Head(s)) THEN lstrip(Tail(s)) ELSE s

RECURSIVE rstrip(_)
rstrip(s) ==
    IF s = <<>> THEN <<>>
    ELSE IF IsSpace(s[Len(s)]) THEN rstrip(SubSeq(s, 1, Len(s) - 1)) ELSE s

strip(s) == rstrip(lstrip(s))

upper(s) == [i \in DOMAIN s |-> UpperChar(s[i])]

----------------------------------------------------------------------------
(* xml.etree.ElementTree: an Element is [tag, text, children]; text is     *)
(* None for an element without character data before its first child.      *)

Element(tag, text, children) == [tag |-> tag, text |-> text, children |-> children]

\* Element.find(tag): the first direct child with that tag, or None
RECURSIVE FirstWithTag(_, _)
FirstWithTag(children, tag) ==
    IF children = <<>> THEN None
    ELSE IF Head(children).tag = tag THEN Some(Head(children))
    ELSE FirstWithTag(Tail(children), tag)

find(elem, tag) == FirstWithTag(elem.children, tag)

\* every element strictly below elem, in document order
RECURSIVE Descendants(_)
RECURSIVE DescendantsOfAll(_)
Descendants(elem) == DescendantsOfAll(elem.children)
DescendantsOfAll(children) ==
    IF children = <<>> THEN <<>>
    ELSE <<Head(children)>> \o Descendants(Head(children))
         \o DescendantsOfAll(Tail(children))

\* Element.findall('.//' + tag): the descendants with that tag, in document order
findall(elem, tag) == SelectSeq(Descendants(elem), LAMBDA e : e.tag = tag)

\* A document text is modelled by what ET.fromstring makes of it: a
\* ParseError, or the root element of the tree.
Malformed == [wellformed |-> FALSE]
Tree(root) == [wellformed |-> TRUE, root |-> root]
\* A text with a lone surrogate (such as '<a>\ud800</a>') cannot be encoded
\* for the parser: ET.fromstring raises UnicodeEncodeError, not ParseError.
Unencodable == [wellformed |-> FALSE, raises |-> "UnicodeEncodeError"]

\* app.py:80-81  elem.text.strip() if elem is not None and elem.text else ''
TextOrEmpty(elem) ==
    IF elem # None /\ Val(elem).text # None /\ Val(Val(elem).text) # <<>>
    THEN strip(Val(Val(elem).text))
    ELSE <<>>

\* the loop body with the description appended before the title
ItemContentDescriptionFirst(item) ==
    LET title == TextOrEmpty(find(item, "title"))
        description == TextOrEmpty(find(item, "description"))
    IN  (IF description # <<>> THEN <<upper(description)>> ELSE <<>>)
        \o (IF title # <<>> THEN <<upper(title)>> ELSE <<>>)

\* app.py:76-86 the loop body for one item: the tokens it appends
ItemContent(item) ==
    LET title == TextOrEmpty(find(item, "title"))
        description == TextOrEmpty(find(item, "description"))
    IN  (IF title # <<>> THEN <<upper(title)>> ELSE <<>>)
        \o (IF description # <<>> THEN <<upper(description)>> ELSE <<>>)

RECURSIVE ContentOfItems(_)
ContentOfItems(items) ==
    IF items = <<>> THEN <<>>
    ELSE ItemContent(Head(items)) \o ContentOfItems(Tail(items))

\* app.py:69-91; the result is [raised, value]: ParseError is caught inside,
\* any other exception of ET.fromstring leaves the function
parse_rss_content(doc) ==
    IF doc.wellformed
    THEN [raised |-> "none", value |-> ContentOfItems(findall(doc.root, "item"))]
    ELSE IF doc = Unencodable
    THEN [raised |-> "UnicodeEncodeError", value |-> <<>>]
    ELSE [raised |-> "none", value |-> <<>>]

----------------------------------------------------------------------------
(* The documents a direct call of parse_rss_content is tried on *)

TitleText == Some(<<" ", "a", " ", "b", " ">>)
DescriptionText == Some(<<"b", "A">>)
Whitespace == Some(<<" ", " ">>)

Leaves ==
    {Element("title", t, <<>>) : t \in {None, Whitespace, TitleText}}
    \cup {Element("description", t, <<>>) : t \in {None, Whitespace, DescriptionText}}

\* the children of an item: none, one element, a title and a description in
\* either order, or an empty title before a second title
ItemChildren ==
    {<<>>} \cup {<<a>> : a \in Leaves}
    \cup {<<ab[1], ab[2]>> : ab \in {x \in Leaves \X Leaves : x[1].tag # x[2].tag}}
    \cup {<<Element("title", None, <<>>), Element("title", TitleText, <<>>)>>}

Items == {Element("item", None, c) : c \in ItemChildren}

ItemLists == UNION {[1..n -> Items] : n \in 0..MaxItems}

\* every item of the list a child of the one before it
RECURSIVE Nest(_)
Nest(items) ==
    IF items = <<>> THEN <<>>
    ELSE <<Element("item", None, Head(items).children \o Nest(Tail(items)))>>

Channel(items) == Element("rss", None, <<Element("channel", None, items)>>)
Flat(items) == Element("rdf", None, <<Element("channel", None, <<>>)>> \o items)
Nested(items) == Element("rss", None, <<Element("channel", None, Nest(items))>>)
ItemRoot(items) == Element("item", None, <<Element("title", TitleText, <<>>)>> \o items)

Shapes == {"malformed", "unencodable", "channel", "flat", "nested", "itemroot"}

\* the document of a shape around a list of items
Document(shape, l) ==
    CASE shape = "channel" -> Tree(Channel(l))
      [] shape = "flat" -> Tree(Flat(l))
      [] shape = "nested" -> Tree(Nested(l))
      [] shape = "itemroot" -> Tree(ItemRoot(l))
      [] shape = "unencodable" -> Unencodable
      [] OTHER -> Malformed

----------------------------------------------------------------------------
(* rss_feeds.json and load_rss_feeds *)

\* feed URLs are numbered; a configured list holds the first n of them, in
\* ascending or in descending order
Urls == 1..MaxFeeds

FeedLists ==
    {[i \in 1..n |-> i] : n \in 0..MaxFeeds}
    \cup {[i \in 1..n |-> n + 1 - i] : n \in 0..MaxFeeds}

\* What open() and json.load() meet: no file, a file that cannot be read,
\* text that is not JSON, a JSON array, a JSON object without the key
\* 'feeds', one whose 'feeds' is null, one whose 'feeds' is a list of URLs.
ConfigFiles ==
    {[kind |-> k, feeds |-> <<>>] :
        k \in {"missing", "unreadable", "invalid_json", "array",
               "object_without_feeds", "object_feeds_null"}}
    \cup {[kind |-> "object", feeds |-> l] : l \in FeedLists}

NoConfig == [kind |-> "unread", feeds |-> <<>>]

\* app.py:29-40; the result is [raised, value], value being None or a list
load_rss_feeds(file) ==
    CASE file.kind = "missing" -> [raised |-> "none", value |-> Some(<<>>)]
      [] file.kind = "invalid_json" -> [raised |-> "none", value |-> Some(<<>>)]
      [] file.kind = "unreadable" -> [raised |-> "PermissionError", value |-> None]
      [] file.kind = "array" -> [raised |-> "AttributeError", value |-> None]
      [] file.kind = "object_without_feeds" -> [raised |-> "none", value |-> Some(<<>>)]
      [] file.kind = "object_feeds_null" -> [raised |-> "none", value |-> None]
      [] OTHER -> [raised |-> "none", value |-> Some(file.feeds)]

----------------------------------------------------------------------------
(* The clock *)

TTLTicks == CACHE_TTL * TicksPerSecond

\* the instants the clock is observed at: around zero, around one TTL, far later
Instants == {0, 1, TTLTicks - 1, TTLTicks, TTLTicks + 1, 3 * TTLTicks}

\* timedelta.total_seconds() < seconds, for a timedelta of d ticks
SecondsLessThan(d, seconds) == d < seconds * TicksPerSecond

\* int(timedelta.total_seconds()): truncation towards zero
IntSeconds(d) == IF d >= 0 THEN d \div TicksPerSecond ELSE -((-d) \div TicksPerSecond)

\* datetime.isoformat()
isoformat(t) == [iso |-> t]

----------------------------------------------------------------------------
(* The cache *)

EmptyCache == [data |-> None, timestamp |-> None, count |-> 0]

\* is_cache_valid with the comparison "<=" in place of "<"
is_cache_valid_inclusive(cache, t) ==
    IF cache.data = None \/ cache.timestamp = None
    THEN FALSE
    ELSE t - Val(cache.timestamp) <= CACHE_TTL * TicksPerSecond

\* app.py:42-48
is_cache_valid(cache, t) ==
    IF cache.data = None \/ cache.timestamp = None
    THEN FALSE
    ELSE SecondsLessThan(t - Val(cache.timestamp), CACHE_TTL)

\* app.py:50-60: the response dict, or None
get_cached_rss_content(cache, t) ==
    IF is_cache_valid(cache, t)
    THEN Some([texts |-> Val(cache.data),
               count |-> cache.count,
               timestamp |-> isoformat(Val(cache.timestamp)),
               cached |-> TRUE])
    ELSE None

\* update_rss_cache with a count that is one short
update_rss_cache_short_count(texts, t) ==
    [data |-> Some(texts), timestamp |-> Some(t), count |-> Len(texts) - 1]

\* app.py:62-67
update_rss_cache(texts, t) ==
    [data |-> Some(texts), timestamp |-> Some(t), count |-> Len(texts)]

\* clear_cache without the reset of the timestamp
ClearedCacheKeepsTimestamp(cache) ==
    [data |-> None, timestamp |-> cache.timestamp, count |-> 0]

\* app.py:165-167
ClearedCache(cache) == [data |-> None, timestamp |-> None, count |-> 0]

----------------------------------------------------------------------------
(* One iteration of the aggregation loop *)

StatusCodes == {101, 200, 304, 404, 500}

OneTitle == Element("item", None, <<Element("title", TitleText, <<>>)>>)
TitleAndDescription ==
    Element("item", None, <<Element("title", TitleText, <<>>),
                            Element("description", DescriptionText, <<>>)>>)

\* the bodies a feed answers with
FeedBodies ==
    {Malformed, Unencodable, Tree(Channel(<<OneTitle>>)),
     Tree(Channel(<<TitleAndDescription>>))}

\* what requests.get meets: an exception, or a response with status and text
Response(status, text) == [kind |-> "response", status |-> status, text |-> text]
FetchOutcomes ==
    {[kind |-> "RequestException", status |-> 0, text |-> Malformed]}
    \cup {Response(200, b) : b \in FeedBodies}
    \cup {Response(s, Tree(Channel(<<OneTitle>>))) : s \in StatusCodes \ {200}}

\* requests.Response.raise_for_status (app.py:111): HTTPError for 4xx and 5xx
raise_for_status(status) == status >= 400 /\ status < 600

\* app.py:108-123: [parsed, content] of one source; content is what the
\* iteration appends to all_content
ProcessFeed(outcome) ==
    IF outcome.kind # "response"
    THEN [parsed |-> FALSE, content |-> <<>>]
    ELSE IF raise_for_status(outcome.status)
    THEN [parsed |-> FALSE, content |-> <<>>]
    ELSE LET r == parse_rss_content(outcome.text)
         IN  IF r.raised # "none"
             THEN [parsed |-> TRUE, content |-> <<>>]
             ELSE [parsed |-> TRUE, content |-> r.value]

----------------------------------------------------------------------------
(* The request contexts and the HTTP responses *)

Contexts == 1..NumContexts

AllIdle == \A q \in Contexts : pc[q] = "idle"

\* test_feeds.py is not running
NoScript == [at |-> "off"]

NoResponse == [op |-> "none", ctx |-> 0, http |-> 0, body |-> <<>>]
Respond(op, p, body) == [op |-> op, ctx |-> p, http |-> 200, body |-> body]
\* an exception that leaves the view function: Flask answers 500
ServerError(op, p, exception) == [op |-> op, ctx |-> p, http |-> 500, body |-> exception]

\* the locals of a request that has returned
Return(p) ==
    /\ pc' = [pc EXCEPT ![p] = "idle"]
    /\ rss_feeds' = [rss_feeds EXCEPT ![p] = <<>>]
    /\ all_content' = [all_content EXCEPT ![p] = <<>>]
    /\ config' = [config EXCEPT ![p] = NoConfig]
    /\ fetch_log' = [fetch_log EXCEPT ![p] = <<>>]
    /\ status_age' = [status_age EXCEPT ![p] = 0]
    /\ cache_before' = [cache_before EXCEPT ![p] = EmptyCache]

InitLocals ==
    /\ pc = [p \in Contexts |-> "idle"]
    /\ rss_feeds = [p \in Contexts |-> <<>>]
    /\ all_content = [p \in Contexts |-> <<>>]
    /\ config = [p \in Contexts |-> NoConfig]
    /\ fetch_log = [p \in Contexts |-> <<>>]
    /\ status_age = [p \in Contexts |-> 0]
    /\ cache_before = [p \in Contexts |-> EmptyCache]

Init ==
    /\ rss_cache = EmptyCache
    /\ now = 0
    /\ InitLocals
    /\ since_clear = FALSE
    /\ last_miss = None
    /\ response = NoResponse
    /\ xml_text = Malformed
    /\ content = None
    /\ script = NoScript

\* time passes
Tick ==
    /\ \E t \in Instants : t > now /\ now' = t
    /\ response' = NoResponse
    /\ UNCHANGED <<rss_cache, pc, locals, since_clear, last_miss, direct, script>>

----------------------------------------------------------------------------
(* GET /api/rss, app.py:93-134 *)

\* history of the GET /api/rss that follows a non-empty miss response: the
\* first lookup after it is recorded with its instant and outcome; a further
\* lookup, or the cycle of that lookup going on, ends the record
Followed(miss, cached_data, t) ==
    IF miss = None \/ Val(miss).followed # None
    THEN None
    ELSE Some([Val(miss) EXCEPT !.followed =
                  Some([at |-> t,
                        hit |-> cached_data # None,
                        texts |-> IF cached_data # None
                                  THEN Val(cached_data).texts
                                  ELSE <<>>])])

\* a lookup that drops the entry it finds stale
RssBeginEvicts(p) ==
    /\ pc[p] = "idle"
    /\ LET cached_data == get_cached_rss_content(rss_cache, now)
       IN  IF cached_data # None
           THEN /\ response' = Respond("rss", p, Val(cached_data))
                /\ UNCHANGED <<rss_cache, pc, config, cache_before>>
           ELSE /\ pc' = [pc EXCEPT ![p] = "load"]
                /\ \E file \in ConfigFiles : config' = [config EXCEPT ![p] = file]
                /\ cache_before' = [cache_before EXCEPT ![p] = EmptyCache]
                /\ rss_cache' = EmptyCache
                /\ response' = NoResponse
    /\ since_clear' = FALSE
    /\ last_miss' = Followed(last_miss, get_cached_rss_content(rss_cache, now), now)
    /\ UNCHANGED <<now, rss_feeds, all_content, fetch_log, status_age, direct, script>>

\* a lookup whose hit renews the capture timestamp of the entry
RssBeginTouches(p) ==
    /\ pc[p] = "idle"
    /\ LET cached_data == get_cached_rss_content(rss_cache, now)
       IN  IF cached_data # None
           THEN /\ response' = Respond("rss", p, Val(cached_data))
                /\ rss_cache' = [rss_cache EXCEPT !.timestamp = Some(now)]
                /\ UNCHANGED <<pc, config, cache_before>>
           ELSE /\ pc' = [pc EXCEPT ![p] = "load"]
                /\ \E file \in ConfigFiles : config' = [config EXCEPT ![p] = file]
                /\ cache_before' = [cache_before EXCEPT ![p] = rss_cache]
                /\ response' = NoResponse
                /\ UNCHANGED rss_cache
    /\ since_clear' = FALSE
    /\ last_miss' = Followed(last_miss, get_cached_rss_content(rss_cache, now), now)
    /\ UNCHANGED <<now, rss_feeds, all_content, fetch_log, status_age, direct, script>>

\* app.py:98-103: the cache is consulted; a hit is returned at once, a miss
\* goes on to open rss_feeds.json (app.py:32)
RssBegin(p) ==
    /\ pc[p] = "idle"
    /\ LET cached_data == get_cached_rss_content(rss_cache, now)
       IN  IF cached_data # None
           THEN /\ response' = Respond("rss", p, Val(cached_data))
                /\ UNCHANGED <<pc, config, cache_before>>
           ELSE /\ pc' = [pc EXCEPT ![p] = "load"]
                /\ \E file \in ConfigFiles : config' = [config EXCEPT ![p] = file]
                /\ cache_before' = [cache_before EXCEPT ![p] = rss_cache]
                /\ response' = NoResponse
    /\ since_clear' = FALSE
    /\ last_miss' = Followed(last_miss, get_cached_rss_content(rss_cache, now), now)
    /\ UNCHANGED <<rss_cache, now, rss_feeds, all_content, fetch_log, status_age, direct, script>>

\* app.py:104-107: load_rss_feeds() and the start of the loop; an exception
\* of load_rss_feeds, or of iterating a feeds value that is None, is not
\* caught by the view
LoadFeeds(p) ==
    /\ pc[p] = "load"
    /\ LET loaded == load_rss_feeds(config[p])
       IN  IF loaded.raised # "none"
           THEN /\ response' = ServerError("rss", p, loaded.raised)
                /\ Return(p)
           ELSE IF loaded.value = None
           THEN /\ response' = ServerError("rss", p, "TypeError")
                /\ Return(p)
           ELSE /\ rss_feeds' = [rss_feeds EXCEPT ![p] = Val(loaded.value)]
                /\ all_content' = [all_content EXCEPT ![p] = <<>>]
                /\ pc' = [pc EXCEPT ![p] = "fetch"]
                /\ response' = NoResponse
                /\ UNCHANGED <<config, fetch_log, status_age, cache_before>>
    /\ last_miss' = None
    /\ UNCHANGED <<rss_cache, now, since_clear, direct, script>>

\* an iteration that fetches a source a second time when the fetch failed
FetchFeedRetries(p) ==
    /\ pc[p] = "fetch"
    /\ Len(fetch_log[p]) < Len(rss_feeds[p])
    /\ \E outcome \in FetchOutcomes :
          LET feed_url == rss_feeds[p][Len(fetch_log[p]) + 1]
              done == ProcessFeed(outcome)
              entry == [url |-> feed_url, outcome |-> outcome, parsed |-> done.parsed]
          IN  /\ fetch_log' = [fetch_log EXCEPT ![p] =
                     IF done.parsed THEN Append(@, entry) ELSE @ \o <<entry, entry>>]
              /\ all_content' = [all_content EXCEPT ![p] = @ \o done.content]
    /\ response' = NoResponse
    /\ UNCHANGED <<rss_cache, now, pc, rss_feeds, config, status_age, cache_before,
                   since_clear, last_miss, direct, script>>

\* an iteration that puts the new tokens in front of the collected ones
FetchFeedPrepends(p) ==
    /\ pc[p] = "fetch"
    /\ Len(fetch_log[p]) < Len(rss_feeds[p])
    /\ \E outcome \in FetchOutcomes :
          LET feed_url == rss_feeds[p][Len(fetch_log[p]) + 1]
              done == ProcessFeed(outcome)
          IN  /\ fetch_log' = [fetch_log EXCEPT ![p] =
                     Append(@, [url |-> feed_url, outcome |-> outcome,
                                parsed |-> done.parsed])]
              /\ all_content' = [all_content EXCEPT ![p] = done.content \o @]
    /\ response' = NoResponse
    /\ UNCHANGED <<rss_cache, now, pc, rss_feeds, config, status_age, cache_before,
                   since_clear, last_miss, direct, script>>

\* app.py:107-123: one iteration of the loop over rss_feeds
FetchFeed(p) ==
    /\ pc[p] = "fetch"
    /\ Len(fetch_log[p]) < Len(rss_feeds[p])
    /\ \E outcome \in FetchOutcomes :
          LET feed_url == rss_feeds[p][Len(fetch_log[p]) + 1]
              done == ProcessFeed(outcome)
          IN  /\ fetch_log' = [fetch_log EXCEPT ![p] =
                     Append(@, [url |-> feed_url, outcome |-> outcome,
                                parsed |-> done.parsed])]
              /\ all_content' = [all_content EXCEPT ![p] = @ \o done.content]
    /\ response' = NoResponse
    /\ UNCHANGED <<rss_cache, now, pc, rss_feeds, config, status_age, cache_before,
                   since_clear, last_miss, direct, script>>

\* the end of the loop without the test "if all_content"
EndLoopAlwaysStores(p) ==
    /\ pc[p] = "fetch"
    /\ Len(fetch_log[p]) = Len(rss_feeds[p])
    /\ pc' = [pc EXCEPT ![p] = "store"]
    /\ response' = NoResponse
    /\ UNCHANGED <<rss_cache, now, locals, since_clear, last_miss, direct, script>>

\* app.py:126: the loop is over; "if all_content"
EndLoop(p) ==
    /\ pc[p] = "fetch"
    /\ Len(fetch_log[p]) = Len(rss_feeds[p])
    /\ pc' = [pc EXCEPT ![p] = IF all_content[p] # <<>> THEN "store" ELSE "respond"]
    /\ response' = NoResponse
    /\ UNCHANGED <<rss_cache, now, locals, since_clear, last_miss, direct, script>>

\* app.py:127: update_rss_cache(all_content)
UpdateCache(p) ==
    /\ pc[p] = "store"
    /\ rss_cache' = update_rss_cache(all_content[p], now)
    /\ pc' = [pc EXCEPT ![p] = "respond"]
    /\ response' = NoResponse
    /\ UNCHANGED <<now, locals, since_clear, last_miss, direct, script>>

\* a miss response that carries the capture timestamp of the stored entry
RssRespondCaptureStamp(p) ==
    /\ pc[p] = "respond"
    /\ response' = Respond("rss", p,
                           [texts |-> all_content[p],
                            count |-> Len(all_content[p]),
                            timestamp |-> IF rss_cache.timestamp # None
                                         THEN isoformat(Val(rss_cache.timestamp))
                                         ELSE isoformat(now),
                            cached |-> FALSE])
    /\ last_miss' = IF all_content[p] # <<>>
                    THEN Some([texts |-> all_content[p], at |-> now,
                               captured |-> rss_cache.timestamp, followed |-> None])
                    ELSE last_miss
    /\ Return(p)
    /\ UNCHANGED <<rss_cache, now, since_clear, direct, script>>

\* app.py:129-134
RssRespond(p) ==
    /\ pc[p] = "respond"
    /\ response' = Respond("rss", p,
                           [texts |-> all_content[p],
                            count |-> Len(all_content[p]),
                            timestamp |-> isoformat(now),
                            cached |-> FALSE])
    /\ last_miss' = IF all_content[p] # <<>>
                    THEN Some([texts |-> all_content[p], at |-> now,
                               captured |-> rss_cache.timestamp, followed |-> None])
                    ELSE last_miss
    /\ Return(p)
    /\ UNCHANGED <<rss_cache, now, since_clear, direct, script>>

----------------------------------------------------------------------------
(* GET /api/cache/status, app.py:136-160 *)

\* app.py:153-160
AbsentStatus ==
    [cached |-> FALSE,
     count |-> 0,
     timestamp |-> None,
     age_seconds |-> None,
     ttl_seconds |-> CACHE_TTL,
     remaining_ttl |-> 0]

\* the status of an entry without the floor max(0, ...)
PresentStatusNoFloor(cache, t, age_seconds) ==
    [cached |-> is_cache_valid(cache, t),
     count |-> cache.count,
     timestamp |-> Some(isoformat(Val(cache.timestamp))),
     age_seconds |-> Some(age_seconds),
     ttl_seconds |-> CACHE_TTL,
     remaining_ttl |-> CACHE_TTL - age_seconds]

\* app.py:144-151, with age_seconds as app.py:141 computed it
PresentStatus(cache, t, age_seconds) ==
    [cached |-> is_cache_valid(cache, t),
     count |-> cache.count,
     timestamp |-> Some(isoformat(Val(cache.timestamp))),
     age_seconds |-> Some(age_seconds),
     ttl_seconds |-> CACHE_TTL,
     remaining_ttl |-> Max(0, CACHE_TTL - age_seconds)]

\* app.py:139-142 with an entry; app.py:153-160 without
StatusBegin(p) ==
    /\ pc[p] = "idle"
    /\ IF rss_cache.timestamp # None
       THEN /\ status_age' = [status_age EXCEPT ![p] =
                                 IntSeconds(now - Val(rss_cache.timestamp))]
            /\ pc' = [pc EXCEPT ![p] = "status"]
            /\ response' = NoResponse
       ELSE /\ response' = Respond("status", p, AbsentStatus)
            /\ UNCHANGED <<pc, status_age>>
    /\ UNCHANGED <<rss_cache, now, rss_feeds, all_content, config, fetch_log,
                   cache_before, since_clear, last_miss, direct, script>>

\* app.py:144-151; isoformat() of a timestamp that is None by now raises
StatusRespond(p) ==
    /\ pc[p] = "status"
    /\ IF rss_cache.timestamp = None
       THEN response' = ServerError("status", p, "AttributeError")
       ELSE response' = Respond("status", p, PresentStatus(rss_cache, now, status_age[p]))
    /\ Return(p)
    /\ UNCHANGED <<rss_cache, now, since_clear, last_miss, direct, script>>

----------------------------------------------------------------------------
(* GET /api/cache/clear, app.py:162-173 *)

ClearCache(p) ==
    /\ pc[p] = "idle"
    /\ rss_cache' = ClearedCache(rss_cache)
    /\ response' = Respond("clear", p, [status |-> "cache_cleared"])
    /\ since_clear' = TRUE
    /\ last_miss' = None
    /\ UNCHANGED <<now, pc, locals, direct, script>>

----------------------------------------------------------------------------
(* The server answering one request at a time *)

Next ==
    \/ Tick
    \/ \E p \in Contexts : AllIdle /\ RssBegin(p)
    \/ \E p \in Contexts : LoadFeeds(p)
    \/ \E p \in Contexts : FetchFeed(p)
    \/ \E p \in Contexts : EndLoop(p)
    \/ \E p \in Contexts : UpdateCache(p)
    \/ \E p \in Contexts : RssRespond(p)
    \/ \E p \in Contexts : AllIdle /\ StatusBegin(p)
    \/ \E p \in Contexts : StatusRespond(p)
    \/ \E p \in Contexts : AllIdle /\ ClearCache(p)

Spec == Init /\ [][Next]_vars

----------------------------------------------------------------------------
(* GET /api/rss requests alone, each running to its return *)

\* a request that has begun goes on: the view function runs to its return,
\* and every requests.get comes back with a response or an exception
Progress(p) ==
    \/ LoadFeeds(p)
    \/ FetchFeed(p)
    \/ EndLoop(p)
    \/ UpdateCache(p)
    \/ RssRespond(p)

NextCycle ==
    \/ \E p \in Contexts : AllIdle /\ RssBegin(p)
    \/ \E p \in Contexts : LoadFeeds(p)
    \/ \E p \in Contexts : FetchFeed(p)
    \/ \E p \in Contexts : EndLoop(p)
    \/ \E p \in Contexts : UpdateCache(p)
    \/ \E p \in Contexts : RssRespond(p)

SpecCycle ==
    Init /\ [][NextCycle]_vars /\ \A p \in Contexts : WF_vars(Progress(p))

----------------------------------------------------------------------------
(* Requests served by concurrent threads: app.run (app.py:193) gives each
   request a thread of its own, and the views read and write the entries of
   rss_cache one at a time, without a lock *)

NumThreads == 2
Threads == 1..NumThreads

\* the threads find one source configured; a fetch fails on the network or
\* answers 200 with one token or with two
ThreadConfig == [kind |-> "object", feeds |-> <<1>>]
ThreadOutcomes ==
    {[kind |-> "RequestException", status |-> 0, text |-> Malformed],
     Response(200, Tree(Channel(<<OneTitle>>))),
     Response(200, Tree(Channel(<<TitleAndDescription>>)))}

\* the clock is read at the start and one TTL later
ThreadInstants == {0, TTLTicks}

InitThreads ==
    /\ rss_cache = EmptyCache
    /\ now = 0
    /\ pc = [p \in Threads |-> "idle"]
    /\ rss_feeds = [p \in Threads |-> <<>>]
    /\ all_content = [p \in Threads |-> <<>>]
    /\ config = [p \in Threads |-> NoConfig]
    /\ fetch_log = [p \in Threads |-> <<>>]
    /\ status_age = [p \in Threads |-> 0]
    /\ cache_before = [p \in Threads |-> EmptyCache]
    /\ since_clear = FALSE
    /\ last_miss = None
    /\ response = NoResponse
    /\ xml_text = Malformed
    /\ content = None
    /\ script = NoScript

\* app.py:52 (is_cache_valid, app.py:42-48): the test of get_cached_rss_content
RssLookup(p) ==
    /\ pc[p] = "idle"
    /\ IF is_cache_valid(rss_cache, now)
       THEN /\ pc' = [pc EXCEPT ![p] = "hit"]
            /\ UNCHANGED <<config, cache_before>>
       ELSE /\ pc' = [pc EXCEPT ![p] = "load"]
            /\ config' = [config EXCEPT ![p] = ThreadConfig]
            /\ cache_before' = [cache_before EXCEPT ![p] = rss_cache]
    /\ response' = NoResponse
    /\ since_clear' = FALSE
    /\ last_miss' = None
    /\ UNCHANGED <<rss_cache, now, rss_feeds, all_content, fetch_log, status_age, direct, script>>

\* app.py:53-59 and 98-100: the response dict is built from the entries as
\* they are by now; texts is null when data is None, and isoformat() of a
\* timestamp that is None raises
RssHitRespond(p) ==
    /\ pc[p] = "hit"
    /\ IF rss_cache.timestamp = None
       THEN response' = ServerError("rss", p, "AttributeError")
       ELSE response' = Respond("rss", p,
                                [texts |-> IF rss_cache.data = None
                                           THEN None
                                           ELSE Val(rss_cache.data),
                                 count |-> rss_cache.count,
                                 timestamp |-> isoformat(Val(rss_cache.timestamp)),
                                 cached |-> TRUE])
    /\ Return(p)
    /\ UNCHANGED <<rss_cache, now, since_clear, last_miss, direct, script>>

\* app.py:64: rss_cache['data'] = content
UpdateData(p) ==
    /\ pc[p] = "store"
    /\ rss_cache' = [rss_cache EXCEPT !.data = Some(all_content[p])]
    /\ pc' = [pc EXCEPT ![p] = "store_timestamp"]
    /\ response' = NoResponse
    /\ UNCHANGED <<now, locals, since_clear, last_miss, direct, script>>

\* app.py:65: rss_cache['timestamp'] = datetime.now()
UpdateTimestamp(p) ==
    /\ pc[p] = "store_timestamp"
    /\ rss_cache' = [rss_cache EXCEPT !.timestamp = Some(now)]
    /\ pc' = [pc EXCEPT ![p] = "store_count"]
    /\ response' = NoResponse
    /\ UNCHANGED <<now, locals, since_clear, last_miss, direct, script>>

\* app.py:66: rss_cache['count'] = len(content)
UpdateCount(p) ==
    /\ pc[p] = "store_count"
    /\ rss_cache' = [rss_cache EXCEPT !.count = Len(all_content[p])]
    /\ pc' = [pc EXCEPT ![p] = "respond"]
    /\ response' = NoResponse
    /\ UNCHANGED <<now, locals, since_clear, last_miss, direct, script>>

\* app.py:165: rss_cache['data'] = None
ClearData(p) ==
    /\ pc[p] = "idle"
    /\ rss_cache' = [rss_cache EXCEPT !.data = None]
    /\ pc' = [pc EXCEPT ![p] = "clear_timestamp"]
    /\ response' = NoResponse
    /\ UNCHANGED <<now, locals, since_clear, last_miss, direct, script>>

\* app.py:166: rss_cache['timestamp'] = None
ClearTimestamp(p) ==
    /\ pc[p] = "clear_timestamp"
    /\ rss_cache' = [rss_cache EXCEPT !.timestamp = None]
    /\ pc' = [pc EXCEPT ![p] = "clear_count"]
    /\ response' = NoResponse
    /\ UNCHANGED <<now, locals, since_clear, last_miss, direct, script>>

\* app.py:167-173: rss_cache['count'] = 0, and the response
ClearCount(p) ==
    /\ pc[p] = "clear_count"
    /\ rss_cache' = [rss_cache EXCEPT !.count = 0]
    /\ response' = Respond("clear", p, [status |-> "cache_cleared"])
    /\ since_clear' = TRUE
    /\ last_miss' = None
    /\ Return(p)
    /\ UNCHANGED <<now, direct, script>>

NextThreads ==
    \/ Tick /\ now' \in ThreadInstants
    \/ \E p \in Threads : RssLookup(p)
    \/ \E p \in Threads : RssHitRespond(p)
    \/ \E p \in Threads : LoadFeeds(p)
    \/ \E p \in Threads :
          FetchFeed(p) /\ fetch_log'[p][Len(fetch_log'[p])].outcome \in ThreadOutcomes
    \/ \E p \in Threads : EndLoop(p)
    \/ \E p \in Threads : UpdateData(p)
    \/ \E p \in Threads : UpdateTimestamp(p)
    \/ \E p \in Threads : UpdateCount(p)
    \/ \E p \in Threads : RssRespond(p)
    \/ \E p \in Threads : StatusBegin(p)
    \/ \E p \in Threads : StatusRespond(p)
    \/ \E p \in Threads : ClearData(p)
    \/ \E p \in Threads : ClearTimestamp(p)
    \/ \E p \in Threads : ClearCount(p)

SpecThreads == InitThreads /\ [][NextThreads]_vars

----------------------------------------------------------------------------
(* parse_rss_content called directly on each document *)

InitParse ==
    /\ rss_cache = EmptyCache
    /\ now = 0
    /\ InitLocals
    /\ since_clear = FALSE
    /\ last_miss = None
    /\ response = NoResponse
    /\ \E shape \in Shapes, l \in ItemLists : xml_text = Document(shape, l)
    /\ content = None
    /\ script = NoScript

ParseCall ==
    /\ content = None
    /\ content' = Some(parse_rss_content(xml_text))
    /\ UNCHANGED <<rss_cache, now, pc, locals, since_clear, last_miss, response,
                   xml_text, script>>

NextParse == ParseCall

SpecParse == InitParse /\ [][NextParse]_vars

----------------------------------------------------------------------------
(* test_feeds.py: the script that tests every configured feed *)

MaxTested == 3

\* rss_feeds.json as the script finds it: as for the server, with lists of up
\* to MaxTested URLs
TestedLists == {[i \in 1..n |-> i] : n \in 0..MaxTested}
ScriptConfigFiles ==
    {[kind |-> k, feeds |-> <<>>] :
        k \in {"missing", "unreadable", "invalid_json", "array",
               "object_without_feeds", "object_feeds_null"}}
    \cup {[kind |-> "object", feeds |-> l] : l \in TestedLists}

\* what requests.get meets for a tested feed
TestOutcomes ==
    {[kind |-> "RequestException", status |-> 0, text |-> Malformed],
     Response(404, Tree(Channel(<<OneTitle>>))),
     Response(304, Malformed),
     Response(200, Malformed),
     Response(200, Unencodable),
     Response(200, Tree(Channel(<<>>))),
     Response(200, Tree(Flat(<<OneTitle>>))),
     Response(200, Tree(Flat(<<>>)))}

\* root.find('.//' + tag): the first descendant with that tag, or None
FindBelow(elem, tag) ==
    LET found == findall(elem, tag)
    IN  IF found = <<>> THEN None ELSE Some(Head(found))

\* the truth value of what find returns: None is false, and so is an Element
\* without children
Truthy(found) == found # None /\ Val(found).children # <<>>

\* test_feeds.py:27-81; the result is [raised, status]
test_rss_feed(outcome) ==
    IF outcome.kind # "response"
    THEN [raised |-> "none", status |-> "REQUEST_ERROR"]
    ELSE IF outcome.status # 200
    THEN [raised |-> "none", status |-> "HTTP_ERROR"]
    ELSE IF outcome.text = Unencodable
    THEN [raised |-> "UnicodeEncodeError", status |-> "none"]
    ELSE IF ~outcome.text.wellformed
    THEN [raised |-> "none", status |-> "PARSE_ERROR"]
    ELSE LET root == outcome.text.root
         IN  IF \/ root.tag \in {"rss", "feed"}
                \/ Truthy(FindBelow(root, "channel"))
                \/ Truthy(FindBelow(root, "item"))
             THEN [raised |-> "none", status |-> "SUCCESS"]
             ELSE [raised |-> "none", status |-> "INVALID_XML"]

Statuses == {"SUCCESS", "HTTP_ERROR", "REQUEST_ERROR", "PARSE_ERROR", "INVALID_XML"}

\* the script at the call of main() (test_feeds.py:193)
ScriptStart ==
    [at |-> "main", feeds |-> <<>>, tested |-> 0,
     results |-> [st \in Statuses |-> <<>>], working_count |-> 0,
     raised |-> "none", exit |-> None]

\* sys.exit(code)
Exit(run, code) == [run EXCEPT !.at = "exited", !.exit = Some(code)]

\* an exception leaves main() and is caught at test_feeds.py:208-210
Unexpected(run, exception) == Exit([run EXCEPT !.raised = exception], 1)

\* test_feeds.py:197-205: the exit code for the counts main() returned
ExitCode(working, total) ==
    IF working = 0 THEN 1
    ELSE IF 2 * working < total THEN 1
    ELSE 0

\* test_feeds.py:89-92: the feed list is loaded; without feeds main() returns
\* None, which the caller cannot unpack into (working, total)
ScriptLoad ==
    /\ script.at = "main"
    /\ \E file \in ScriptConfigFiles :
          LET loaded == load_rss_feeds(file)
          IN  IF loaded.raised # "none"
              THEN script' = Unexpected(script, loaded.raised)
              ELSE IF loaded.value = None \/ Val(loaded.value) = <<>>
              THEN script' = Unexpected(script, "TypeError")
              ELSE script' = [script EXCEPT !.at = "loop", !.feeds = Val(loaded.value)]
    /\ UNCHANGED <<rss_cache, now, pc, locals, since_clear, last_miss, response, direct>>

\* test_feeds.py:111-124: one iteration of the loop over the feeds
TestFeed ==
    /\ script.at = "loop"
    /\ script.tested < Len(script.feeds)
    /\ \E outcome \in TestOutcomes :
          LET url == script.feeds[script.tested + 1]
              result == test_rss_feed(outcome)
          IN  IF result.raised # "none"
              THEN script' = Unexpected([script EXCEPT !.tested = @ + 1], result.raised)
              ELSE script' =
                     [script EXCEPT
                        !.tested = @ + 1,
                        !.results[result.status] = Append(@, url),
                        !.working_count =
                            IF result.status = "SUCCESS" THEN @ + 1 ELSE @]
    /\ UNCHANGED <<rss_cache, now, pc, locals, since_clear, last_miss, response, direct>>

\* test_feeds.py:126-205: the summary, the log file, and the exit code
ScriptExit ==
    /\ script.at = "loop"
    /\ script.tested = Len(script.feeds)
    /\ script' = Exit(script, ExitCode(script.working_count, Len(script.feeds)))
    /\ UNCHANGED <<rss_cache, now, pc, locals, since_clear, last_miss, response, direct>>

InitScript ==
    /\ rss_cache = EmptyCache
    /\ now = 0
    /\ InitLocals
    /\ since_clear = FALSE
    /\ last_miss = None
    /\ response = NoResponse
    /\ xml_text = Malformed
    /\ content = None
    /\ script = ScriptStart

NextScript ==
    \/ ScriptLoad
    \/ TestFeed
    \/ ScriptExit

SpecScript == InitScript /\ [][NextScript]_vars

----------------------------------------------------------------------------
(* Properties *)

\* an entry is present and younger than 300 seconds at time t
Fresh(cache, t) ==
    /\ cache.data # None
    /\ cache.timestamp # None
    /\ t - Val(cache.timestamp) < 300 * TicksPerSecond

\* the step of context p answers GET /api/rss from the cache
RssHit(p) == pc[p] = "idle" /\ response'.op = "rss" /\ response'.ctx = p
\* the step of context p finds no usable entry for GET /api/rss
RssMiss(p) == pc[p] = "idle" /\ pc'[p] = "load"

\* C1: the cache read of GET /api/rss is a hit exactly when an entry is
\* present and its age is below 300 seconds (an age of exactly 300 seconds
\* is a miss); a hit returns the stored tokens, count and capture timestamp
\* tagged cached=true; a read right after update_rss_cache(tokens) is a hit
\* with count = len(tokens).
C1_HitIffFresh ==
    [][\A p \in Contexts :
        /\ RssMiss(p) => ~Fresh(rss_cache, now)
        /\ RssHit(p) =>
              /\ Fresh(rss_cache, now)
              /\ response'.http = 200
              /\ response'.body = [texts |-> Val(rss_cache.data),
                                   count |-> rss_cache.count,
                                   timestamp |-> isoformat(Val(rss_cache.timestamp)),
                                   cached |-> TRUE]
        /\ (pc[p] = "store" /\ pc'[p] = "respond") =>
              LET read == get_cached_rss_content(rss_cache', now')
              IN  /\ read # None
                  /\ Val(read).cached
                  /\ Val(read).texts = all_content[p]
                  /\ Val(read).count = Len(all_content[p])]_vars

\* a hit served half a second before the entry turns 300 seconds old
C1_HitJustBelowTTL ==
    /\ response.op = "rss"
    /\ response.http = 200
    /\ response.body.cached
    /\ rss_cache.timestamp # None
    /\ now - Val(rss_cache.timestamp) = TTLTicks - 1

\* C2: a GET /api/rss whose aggregation cycle yields zero tokens leaves the
\* cache entry as the request found it: data, timestamp and count unchanged.
C2_EmptyCycleKeepsCache ==
    [][\A p \in Contexts :
        (/\ pc[p] = "respond"
         /\ response'.op = "rss"
         /\ response'.ctx = p
         /\ response'.http = 200
         /\ response'.body.count = 0)
        => /\ rss_cache' = cache_before[p]
           /\ rss_cache'.data = cache_before[p].data
           /\ rss_cache'.timestamp = cache_before[p].timestamp
           /\ rss_cache'.count = cache_before[p].count]_vars

\* an empty cycle has just answered while a stale entry is still stored
C2_EmptyCycleOverStaleEntry ==
    /\ response.op = "rss"
    /\ response.http = 200
    /\ ~response.body.cached
    /\ response.body.count = 0
    /\ rss_cache.data # None
    /\ rss_cache.count > 0

\* C3: GET /api/cache/clear resets the cache to the absent state from any
\* state, and a status request that follows with no GET /api/rss in between
\* reports cached=false, count=0, timestamp=null, age_seconds=null and
\* remaining_ttl=0.
C3_ClearThenStatus ==
    [][/\ response'.op = "clear" =>
            /\ rss_cache'.data = None
            /\ rss_cache'.timestamp = None
            /\ rss_cache'.count = 0
       /\ (since_clear /\ response'.op = "status") =>
            /\ response'.http = 200
            /\ response'.body.cached = FALSE
            /\ response'.body.count = 0
            /\ response'.body.timestamp = None
            /\ response'.body.age_seconds = None
            /\ response'.body.remaining_ttl = 0]_vars

\* a status answered after a clear that removed an entry older than the TTL
C3_StatusAfterClear ==
    /\ since_clear
    /\ response.op = "status"
    /\ response.http = 200
    /\ now >= TTLTicks

\* C4: in a status response for a present entry, ttl_seconds is 300,
\* age_seconds is the whole-second age of the entry, and remaining_ttl is
\* max(0, ttl_seconds - age_seconds), never negative; for an absent entry
\* remaining_ttl is 0.
C4_RemainingTTL ==
    [][\A p \in Contexts :
        /\ (pc[p] = "idle" /\ pc'[p] = "status") =>
              LET age == now - Val(rss_cache.timestamp)
              IN  /\ status_age'[p] * TicksPerSecond <= age
                  /\ age < (status_age'[p] + 1) * TicksPerSecond
        /\ (response'.op = "status" /\ response'.ctx = p /\ response'.http = 200) =>
              IF pc[p] = "status"
              THEN LET body == response'.body
                       age_seconds == status_age[p]
                   IN  /\ body.age_seconds = Some(age_seconds)
                       /\ body.ttl_seconds = 300
                       /\ body.remaining_ttl >= 0
                       /\ age_seconds <= 300 => body.remaining_ttl + age_seconds = 300
                       /\ age_seconds > 300 => body.remaining_ttl = 0
              ELSE response'.body.remaining_ttl = 0]_vars

\* a status answered for an entry far older than the TTL
C4_StatusFarBeyondTTL ==
    /\ response.op = "status"
    /\ response.http = 200
    /\ response.body.age_seconds # None
    /\ Val(response.body.age_seconds) > 2 * CACHE_TTL
    /\ response.body.remaining_ttl = 0

\* the fetch returned a response that the loop did not reject
Succeeded(outcome) ==
    outcome.kind = "response" /\ ~(outcome.status >= 400 /\ outcome.status <= 599)

\* the token sequences of the succeeded sources of a fetch log, concatenated
RECURSIVE ConcatSucceeded(_)
ConcatSucceeded(log) ==
    IF log = <<>> THEN <<>>
    ELSE ConcatSucceeded(SubSeq(log, 1, Len(log) - 1))
         \o (IF Succeeded(log[Len(log)].outcome)
             THEN parse_rss_content(log[Len(log)].outcome.text).value
             ELSE <<>>)

\* C5: the aggregation loop returns the concatenation, in source-list order,
\* of the complete token sequences of the sources that succeeded; a failed
\* source contributes nothing and drops nothing of the others.
C5_Concatenation ==
    [][\A p \in Contexts :
        (pc[p] = "respond" /\ response'.op = "rss" /\ response'.ctx = p) =>
            /\ Len(fetch_log[p]) = Len(rss_feeds[p])
            /\ \A i \in 1..Len(fetch_log[p]) : fetch_log[p][i].url = rss_feeds[p][i]
            /\ response'.body.texts = ConcatSucceeded(fetch_log[p])]_vars

\* a cycle over two sources, the first failed, the second with two tokens
C5_FailureThenSuccess ==
    \E p \in Contexts :
        /\ pc[p] = "respond"
        /\ Len(fetch_log[p]) = 2
        /\ fetch_log[p][1].outcome.kind = "RequestException"
        /\ Succeeded(fetch_log[p][2].outcome)
        /\ Len(all_content[p]) = 2

\* C6: GET /api/rss always completes with HTTP 200, whatever happens while
\* the sources are processed.
C6_AlwaysOk ==
    response.op = "rss" => response.http = 200

\* the file is not an object with a list under 'feeds'
LoadFailure(file) == file.kind # "object"

\* C7: load_rss_feeds returns an empty list, and does not raise, on every
\* load failure (file absent or unreadable, not JSON, JSON of another
\* shape); a loaded object yields its 'feeds' list.
C7_LoadFailsSoftly ==
    \A p \in Contexts :
        pc[p] = "load" =>
            LET loaded == load_rss_feeds(config[p])
            IN  /\ loaded.raised = "none"
                /\ LoadFailure(config[p]) => loaded.value = Some(<<>>)
                /\ ~LoadFailure(config[p]) => loaded.value = Some(config[p].feeds)

\* C8: after any sequence of completed requests, count = len(tokens) when
\* an entry is present and count = 0 when it is absent.
C8_CountIsLength ==
    AllIdle =>
        /\ rss_cache.data # None => rss_cache.count = Len(Val(rss_cache.data))
        /\ rss_cache.data = None => rss_cache.count = 0

\* an entry of three tokens is stored and no request is in progress
C8_EntryOfThree ==
    /\ AllIdle
    /\ rss_cache.data # None
    /\ Len(Val(rss_cache.data)) = 3

\* C9: a source whose response has a non-2xx status, or whose fetch hits a
\* transport error, is skipped: its body is never handed to
\* parse_rss_content and it contributes no tokens.
C9_Non2xxSkipped ==
    \A p \in Contexts :
        \A i \in 1..Len(fetch_log[p]) :
            LET outcome == fetch_log[p][i].outcome
            IN  (outcome.kind # "response" \/ outcome.status < 200 \/ outcome.status > 299)
                => ~fetch_log[p][i].parsed

----------------------------------------------------------------------------
(* What the parser is to return, stated over the tree *)

\* the text without its leading and trailing spaces
Trimmed(s) ==
    LET inked == {i \in 1..Len(s) : s[i] # " "}
    IN  IF inked = {} THEN <<>>
        ELSE LET first == CHOOSE i \in inked : \A j \in inked : i <= j
                 last == CHOOSE i \in inked : \A j \in inked : i >= j
             IN  [k \in 1..(last - first + 1) |-> s[first + k - 1]]

UpperCased(s) ==
    [i \in 1..Len(s) |-> IF s[i] = "a" THEN "A" ELSE IF s[i] = "b" THEN "B" ELSE s[i]]

\* the token of an item's field: its first element of that name, if that
\* has text that is not only whitespace
FieldToken(item, tag) ==
    LET at == {i \in 1..Len(item.children) : item.children[i].tag = tag}
    IN  IF at = {} THEN <<>>
        ELSE LET elem == item.children[CHOOSE i \in at : \A j \in at : i <= j]
             IN  IF elem.text = None \/ Trimmed(Val(elem.text)) = <<>>
                 THEN <<>>
                 ELSE <<UpperCased(Trimmed(Val(elem.text)))>>

\* the tokens of the items among these elements and below them, in document order
RECURSIVE TokensBelow(_)
TokensBelow(children) ==
    IF children = <<>> THEN <<>>
    ELSE LET e == Head(children)
         IN  (IF e.tag = "item"
              THEN FieldToken(e, "title") \o FieldToken(e, "description")
              ELSE <<>>)
             \o TokensBelow(e.children)
             \o TokensBelow(Tail(children))

C11_NeverRaises ==
    content # None =>
        /\ Val(content).raised = "none"
        /\ ~xml_text.wellformed => Val(content).value = <<>>

\* C12: the aggregation cycle starts only on a miss: a GET /api/rss that
\* finds a fresh entry answers from it tagged cached=true, without loading
\* the feed list, without any fetch and without touching the cache, so a hit
\* never extends the lifetime of the entry.
C12_HitLeavesCacheAlone ==
    [][\A p \in Contexts :
        /\ (RssHit(p) /\ Fresh(rss_cache, now))
           => /\ response'.http = 200
              /\ response'.body.cached
              /\ rss_cache' = rss_cache
              /\ pc'[p] = "idle"
              /\ config'[p] = NoConfig
              /\ rss_feeds'[p] = <<>>
              /\ fetch_log'[p] = <<>>
        /\ (pc[p] = "idle" /\ Fresh(rss_cache, now)) => pc'[p] # "load"
        /\ config'[p] # config[p] => pc[p] # "idle" \/ ~Fresh(rss_cache, now)
        /\ fetch_log'[p] # fetch_log[p] => pc[p] # "idle"]_vars

\* a hit served from an entry older than its capture instant, the entry
\* still carrying that capture instant
C12_HitOnAgedEntry ==
    /\ response.op = "rss"
    /\ response.http = 200
    /\ response.body.cached
    /\ rss_cache.timestamp # None
    /\ Val(rss_cache.timestamp) = 0
    /\ now = 1

\* the step of context p sends the response of a GET /api/rss that ran an
\* aggregation cycle
MissResponse(p) ==
    pc[p] = "respond" /\ response'.op = "rss" /\ response'.ctx = p

\* the miss response: cached=false, the tokens of the cycle, their number,
\* and the instant of the response, with or without a cache update
MissResponseShape ==
    \A p \in Contexts :
        MissResponse(p) =>
            /\ response'.http = 200
            /\ ~response'.body.cached
            /\ response'.body.texts = all_content[p]
            /\ response'.body.count = Len(response'.body.texts)
            /\ response'.body.timestamp = isoformat(now')
            /\ (all_content[p] = <<>> => rss_cache' = cache_before[p])
            /\ (all_content[p] # <<>> => rss_cache'.data = Some(all_content[p]))

\* C13 as stated: every miss response is tagged cached=false, carries the
\* tokens of its cycle with count = len(texts) and a timestamp taken at
\* response time; after a non-empty one, the next GET /api/rss within 300
\* seconds of that response, with no clear in between, is a hit returning the
\* same tokens.
C13_HitWithin300OfResponse ==
    [][/\ MissResponseShape
       /\ (last_miss' # None /\ Val(last_miss').followed # None) =>
             LET miss == Val(last_miss')
                 get == Val(miss.followed)
             IN  get.at - miss.at < 300 * TicksPerSecond
                 => get.hit /\ get.texts = miss.texts]_vars

\* C13 amended: the 300 seconds of the next GET /api/rss run from the capture
\* timestamp update_rss_cache stored (app.py:65), which is not later than the
\* timestamp of the miss response (app.py:132): the next GET /api/rss with no
\* clear in between is a hit exactly when it comes less than 300 seconds
\* after that capture instant, and a hit returns the same tokens.
C13_HitWithin300OfCapture ==
    [][/\ MissResponseShape
       /\ last_miss' # None =>
             /\ Val(last_miss').captured # None
             /\ Val(Val(last_miss').captured) <= Val(last_miss').at
       /\ (last_miss' # None /\ Val(last_miss').followed # None) =>
             LET miss == Val(last_miss')
                 get == Val(miss.followed)
             IN  /\ get.hit <=> get.at - Val(miss.captured) < 300 * TicksPerSecond
                 /\ get.hit => get.texts = miss.texts]_vars

\* the GET /api/rss after a non-empty miss response was a hit although the
\* clock had moved on between the cache update and the response, and again
\* before that GET
C13_HitAfterLateResponse ==
    /\ last_miss # None
    /\ Val(last_miss).followed # None
    /\ Val(Val(last_miss).followed).hit
    /\ Val(Val(last_miss).captured) < Val(last_miss).at
    /\ Val(last_miss).at < Val(Val(last_miss).followed).at

\* an entry is stored and is 300 seconds old or older at time t
Stale(cache, t) ==
    /\ cache.data # None
    /\ cache.timestamp # None
    /\ t - Val(cache.timestamp) >= 300 * TicksPerSecond

\* C14: neither the passage of time nor a read removes or alters the entry:
\* the cache changes only when a non-empty aggregation replaces the entry or
\* GET /api/cache/clear runs; a lookup that finds the entry stale leaves it
\* in place, and GET /api/cache/status on an entry past its TTL reports the
\* entry's count and timestamp with cached=false and remaining_ttl=0.
C14_StaleEntryStays ==
    [][/\ rss_cache' # rss_cache =>
             \/ response'.op = "clear" /\ rss_cache' = EmptyCache
             \/ \E p \in Contexts :
                   /\ pc[p] = "store"
                   /\ all_content[p] # <<>>
                   /\ rss_cache'.data = Some(all_content[p])
       /\ \A p \in Contexts :
             /\ (RssMiss(p) /\ Stale(rss_cache, now)) =>
                   rss_cache' = rss_cache /\ Stale(rss_cache', now')
             /\ (pc[p] = "idle" /\ pc'[p] = "status" /\ Stale(rss_cache, now)) =>
                   status_age'[p] >= 300
             /\ (pc[p] = "status" /\ response'.op = "status" /\ status_age[p] >= 300) =>
                   /\ Stale(rss_cache, now)
                   /\ response'.http = 200
                   /\ ~response'.body.cached
                   /\ response'.body.count = rss_cache.count
                   /\ response'.body.count = Len(Val(rss_cache.data))
                   /\ response'.body.timestamp = Some(isoformat(Val(rss_cache.timestamp)))
                   /\ response'.body.remaining_ttl = 0
                   /\ rss_cache' = rss_cache]_vars

\* the status of a two-token entry captured at half a second and read at
\* 900 seconds: the entry is still stored, with its count and timestamp
C14_StatusOfStaleEntry ==
    /\ response.op = "status"
    /\ response.http = 200
    /\ ~response.body.cached
    /\ response.body.count = 2
    /\ response.body.remaining_ttl = 0
    /\ response.body.timestamp = Some(isoformat(1))
    /\ rss_cache.timestamp = Some(1)
    /\ now = 3 * TTLTicks

\* C17: after any sequence of completed requests the cache is either fully
\* absent (data None, timestamp None, count 0) or fully present (non-empty
\* data, a timestamp, count >= 1); data is None exactly when timestamp is.
C17_AbsentOrPresent ==
    AllIdle =>
        /\ \/ rss_cache = EmptyCache
           \/ /\ rss_cache.data # None
              /\ Len(Val(rss_cache.data)) >= 1
              /\ rss_cache.timestamp # None
              /\ rss_cache.count >= 1
        /\ rss_cache.data = None <=> rss_cache.timestamp = None

\* every request has completed, the last of them a miss at 300 seconds
\* whose cycle stored its single token
C17_PresentAfterReplacement ==
    /\ AllIdle
    /\ response.op = "rss"
    /\ response.http = 200
    /\ ~response.body.cached
    /\ rss_cache.data = Some(response.body.texts)
    /\ rss_cache.count = 1
    /\ rss_cache.timestamp = Some(TTLTicks)

\* the sources fetched so far by the cycle of context p, in fetch order
FetchedUrls(log) == [i \in 1..Len(log) |-> log[i].url]

\* C18: every aggregation cycle terminates: it issues exactly one fetch per
\* configured source, in list order and without retry, whatever the outcome
\* of each fetch, and then returns a response.
C18_CycleTerminates ==
    /\ [][\A p \in Contexts :
            /\ (pc[p] = "fetch" /\ fetch_log'[p] # fetch_log[p]) =>
                  /\ Len(fetch_log[p]) < Len(rss_feeds[p])
                  /\ Len(fetch_log'[p]) = Len(fetch_log[p]) + 1
                  /\ FetchedUrls(fetch_log'[p])
                        = SubSeq(rss_feeds[p], 1, Len(fetch_log'[p]))
                  /\ pc'[p] = "fetch"
            /\ (pc[p] = "fetch" /\ pc'[p] # "fetch") =>
                  /\ FetchedUrls(fetch_log[p]) = rss_feeds[p]
                  /\ pc'[p] \in {"store", "respond"}
            /\ MissResponse(p) =>
                  /\ FetchedUrls(fetch_log[p]) = rss_feeds[p]
                  /\ response'.http = 200
                  /\ pc'[p] = "idle"]_vars
    /\ \A p \in Contexts : (pc[p] = "fetch") ~> (pc[p] = "idle")

\* the cycle is about to answer after one fetch of each of two sources, the
\* first of which failed on the network and the second with HTTP 500
C18_TwoFailedFetches ==
    \E p \in Contexts :
        /\ pc[p] = "respond"
        /\ Len(rss_feeds[p]) = 2
        /\ Len(fetch_log[p]) = 2
        /\ fetch_log[p][1].outcome.kind = "RequestException"
        /\ fetch_log[p][2].outcome.status = 500

\* C15: concurrent GET /api/rss requests that miss each run their own cycle,
\* and under every interleaving of their cache writes the entry is
\* overwritten wholesale, never merged: when a cycle has written the last of
\* the three entries, and when every request has completed, the data, the
\* timestamp and the count come from one aggregation, so count = len(data).
C15_WholesaleOverwrite ==
    [][/\ \A p \in Threads :
             (pc[p] = "store_count" /\ pc'[p] = "respond" /\ rss_cache'.data # None)
             => rss_cache'.count = Len(Val(rss_cache'.data))
       /\ ((\A p \in Threads : pc'[p] = "idle") /\ rss_cache'.data # None)
             => rss_cache'.count = Len(Val(rss_cache'.data))]_vars

\* C16: under any interleaving of GET /api/cache/clear with a concurrent
\* GET /api/rss or GET /api/cache/status, the concurrent request completes
\* with a well-formed response and never uses a timestamp that is None: no
\* request is answered 500, and a hit never reports the data of a cleared
\* entry (null) under the timestamp of the entry.
C16_WellFormedUnderClear ==
    /\ response.op \in {"rss", "status"} => response.http = 200
    /\ (response.op = "rss" /\ response.http = 200 /\ response.body.cached) =>
          response.body.texts # None

\* the number of feeds the script has put in a category
RECURSIVE Classified(_, _)
Classified(results, statuses) ==
    IF statuses = {} THEN 0
    ELSE LET st == CHOOSE x \in statuses : TRUE
         IN  Len(results[st]) + Classified(results, statuses \ {st})

\* C19: the feed-check script puts every tested feed in exactly one of
\* SUCCESS, HTTP_ERROR, REQUEST_ERROR, PARSE_ERROR, INVALID_XML, so that the
\* category sizes sum to the number of feeds and working_count is the size of
\* SUCCESS; it exits 0 exactly when at least one feed works and the working
\* feeds are at least half of all, and exits 1 otherwise, also when the feed
\* list is empty or cannot be loaded.
C19_ClassifiesAndExits ==
    /\ script.at \in {"loop", "exited"} =>
          /\ Classified(script.results, Statuses) = script.tested
          /\ script.working_count = Len(script.results["SUCCESS"])
          /\ \A st \in Statuses : \A other \in Statuses \ {st} :
                \A i \in 1..Len(script.results[st]) :
                   \A j \in 1..Len(script.results[other]) :
                      script.results[st][i] # script.results[other][j]
    /\ script.at = "exited" =>
          /\ script.exit \in {Some(0), Some(1)}
          /\ script.tested = Len(script.feeds)
          /\ script.exit = Some(0) <=>
                /\ script.working_count >= 1
                /\ 2 * script.working_count >= Len(script.feeds)

====
